---- MODULE Spec2Model ----
(***************************************************************************)
(* Model of tools/python/google_maps_bookmarks.py: GoogleMapsConverter.    *)
(*                                                                         *)
(* Text is modelled as a sequence of atoms.  An atom is a piece of text    *)
(* that contains none of the separators the program splits or joins on;    *)
(* the separators "/", ",", " " and "!1s" are atoms of their own.  So      *)
(* "48.5,2.0" is <<"48.5", ",", "2.0">> and the empty string is <<>>.      *)
(* A timestamp, which the program parses, is the sequence of its code      *)
(* points.                                                                 *)
(* A Python dict is a record whose DOMAIN is the set of keys present.      *)
(***************************************************************************)
EXTENDS Integers, Sequences, FiniteSets, TLC

VARIABLES
    input_mime,     \* mimetypes.guess_type(self.input_file)[0]
    content,        \* what file.read().strip() holds, with its JSON / CSV reading
    output_format,  \* self.output_format
    places,         \* self.places
    api_key,        \* self.api_key (<<>> until get_api_key has assigned it)
    pc,             \* position of the single thread of control
    idx,            \* number of features / data rows already consumed by the running loop
    retry,          \* loop variable of get_json
    places_url,     \* the request get_json was called with
    console,        \* everything printed to standard output since construction
    netlog,         \* every urllib.request.urlopen call made, with its outcome
    output,         \* elements of the tree handed to tree.write (<<>> before)
    writes,         \* number of tree.write calls
    writer,         \* which writer convert has called ("none" before)
    err             \* the exception that terminated convert ("" if none)

vars == <<input_mime, content, output_format, places, api_key, pc, idx, retry,
          places_url, console, netlog, output, writes, writer, err>>

----------------------------------------------------------------------------
(* Bounds of the explored inputs *)

MaxFeatures == 2
MaxRows == 2
MaxPrompts == 2

----------------------------------------------------------------------------
(* Text primitives: str.startswith, str.split, str.join, list.reverse *)

StartsWith(s, p) ==
    /\ Len(s) >= Len(p)
    /\ SubSeq(s, 1, Len(p)) = p

\* position of the first atom equal to sep in s, 0 if there is none
RECURSIVE FindFrom(_, _, _)
FindFrom(s, sep, i) ==
    IF i > Len(s) THEN 0
    ELSE IF s[i] = sep THEN i
    ELSE FindFrom(s, sep, i + 1)

\* s.split(sep): the pieces between occurrences of sep, empty pieces kept
RECURSIVE Split(_, _)
Split(s, sep) ==
    LET i == FindFrom(s, sep, 1) IN
    IF i = 0 THEN <<s>>
    ELSE <<SubSeq(s, 1, i - 1)>> \o Split(SubSeq(s, i + 1, Len(s)), sep)

\* sep.join(parts)
RECURSIVE Join(_, _)
Join(sep, parts) ==
    IF Len(parts) = 0 THEN <<>>
    ELSE IF Len(parts) = 1 THEN parts[1]
    ELSE parts[1] \o sep \o Join(sep, Tail(parts))

\* list.reverse()
Reverse(l) == [i \in 1..Len(l) |-> l[Len(l) + 1 - i]]

\* l[-1]
LastOf(l) == l[Len(l)]

\* str() of a JSON number.  A number is [neg, w, t]: sign, whole part and
\* tenths digit; t = -1 marks a Python int, which prints without a point.
DigitChar(d) == <<"0", "1", "2", "3", "4", "5", "6", "7", "8", "9">>[d + 1]

RECURSIVE Digits(_)
Digits(n) ==
    IF n < 10 THEN <<DigitChar(n)>>
    ELSE Digits(n \div 10) \o <<DigitChar(n % 10)>>

Str(x) ==
    (IF x.neg THEN <<"-">> ELSE <<>>)
    \o Digits(x.w)
    \o (IF x.t < 0 THEN <<>> ELSE <<".", DigitChar(x.t)>>)

\* map(str, coordinates)
MapStr(coordinates) == [i \in 1..Len(coordinates) |-> Str(coordinates[i])]

Has(d, k) == k \in DOMAIN d

\* a Python value is falsy in "a or b" when it is None or the empty string
Truthy(d, k) == Has(d, k) /\ d[k] # <<>>

----------------------------------------------------------------------------
(* convert_timestamp.  A timestamp is a Python str, modelled as the         *)
(* sequence of its code points: "2023-05-01" is <<50, 48, 50, 51, 45, 48,   *)
(* 53, 45, 48, 49>>.  datetime.fromisoformat is the parser of CPython 3.11  *)
(* (_datetime), which reads the UTF-8 encoding of the string byte by byte;  *)
(* it is followed step by step.  Parameter cps is a sequence of code        *)
(* points, parameter s a sequence of bytes.                                 *)

NUL == 0
PLUS_SIGN == 43
COMMA == 44
HYPHEN == 45
FULL_STOP == 46
DIGIT_ZERO == 48
DIGIT_NINE == 57
COLON == 58
LETTER_T == 84
LETTER_W == 87
LETTER_Z == 90

\* timestamp[:-1] when timestamp.endswith('Z')
StripZ(timestamp) ==
    IF Len(timestamp) > 0 /\ LastOf(timestamp) = LETTER_Z
    THEN SubSeq(timestamp, 1, Len(timestamp) - 1)
    ELSE timestamp

\* Py_UNICODE_IS_SURROGATE
is_surrogate(cp) == cp \in 55296..57343

\* _sanitize_isoformat_str looks for a surrogate at the character positions
\* 7, 8 and 10 (counted from 0) and takes the first; -1 if there is none
surrogate_separator(cps) ==
    IF Len(cps) > 7 /\ is_surrogate(cps[8]) THEN 7
    ELSE IF Len(cps) > 8 /\ is_surrogate(cps[9]) THEN 8
    ELSE IF Len(cps) > 10 /\ is_surrogate(cps[11]) THEN 10
    ELSE -1

\* ... and replaces it with "T"
sanitize_isoformat_str(cps) ==
    LET pos == surrogate_separator(cps) IN
    [i \in 1..Len(cps) |-> IF i = pos + 1 THEN LETTER_T ELSE cps[i]]

\* a str with a surrogate left has no UTF-8 encoding
HasUTF8(cps) == \A i \in 1..Len(cps) : ~is_surrogate(cps[i])

\* the UTF-8 encoding of one code point
Utf8(cp) ==
    IF cp < 128 THEN <<cp>>
    ELSE IF cp < 2048 THEN <<192 + (cp \div 64), 128 + (cp % 64)>>
    ELSE IF cp < 65536
         THEN <<224 + (cp \div 4096), 128 + ((cp \div 64) % 64), 128 + (cp % 64)>>
    ELSE <<240 + (cp \div 262144), 128 + ((cp \div 4096) % 64),
           128 + ((cp \div 64) % 64), 128 + (cp % 64)>>

\* PyUnicode_AsUTF8AndSize
RECURSIVE AsUTF8(_)
AsUTF8(cps) ==
    IF cps = <<>> THEN <<>> ELSE Utf8(Head(cps)) \o AsUTF8(Tail(cps))

\* number of bytes of the character whose first byte is b, as the parser
\* reads it from the high bits of b
SeparatorWidth(b) ==
    IF b < 128 THEN 1
    ELSE IF b \div 16 = 14 THEN 3
    ELSE IF b \div 16 = 15 THEN 4
    ELSE 2

\* the byte at position i, NUL past the end of the string
CharAt(s, i) == IF i \in 1..Len(s) THEN s[i] ELSE NUL

is_digit(c) == c \in DIGIT_ZERO..DIGIT_NINE

DigitValue(c) == c - DIGIT_ZERO

\* parse_digits succeeds: the n bytes from position p are digits
HasDigits(s, p, n) == \A k \in 0..(n - 1) : is_digit(CharAt(s, p + k))

\* the number parse_digits reads from them
RECURSIVE parse_digits(_, _, _)
parse_digits(s, p, n) ==
    IF n = 0 THEN 0
    ELSE parse_digits(s, p, n - 1) * 10 + DigitValue(s[p + n - 1])

is_leap(year) == year % 4 = 0 /\ (year % 100 # 0 \/ year % 400 = 0)

days_in_month(year, month) ==
    IF month = 2 /\ is_leap(year) THEN 29
    ELSE <<31, 28, 31, 30, 31, 30, 31, 31, 30, 31, 30, 31>>[month]

days_before_month(year, month) ==
    <<0, 31, 59, 90, 120, 151, 181, 212, 243, 273, 304, 334>>[month]
    + (IF month > 2 /\ is_leap(year) THEN 1 ELSE 0)

days_before_year(year) ==
    LET y == year - 1 IN
    y * 365 + y \div 4 - y \div 100 + y \div 400

ymd_to_ord(year, month, day) ==
    days_before_year(year) + days_before_month(year, month) + day

\* weekday of January 1st, Monday = 0
first_weekday(year) == (ymd_to_ord(year, 1, 1) + 6) % 7

iso_week1_monday(year) ==
    LET week1_monday == ymd_to_ord(year, 1, 1) - first_weekday(year) IN
    IF first_weekday(year) > 3 THEN week1_monday + 7 ELSE week1_monday

\* the date whose ordinal is ordinal >= 1
ord_to_ymd(ordinal) ==
    LET year == CHOOSE y \in ((ordinal - 1) \div 366 + 1)..((ordinal - 1) \div 365 + 1) :
                    days_before_year(y) < ordinal /\ ordinal <= days_before_year(y + 1)
        n == ordinal - days_before_year(year)
        month == CHOOSE m \in 1..12 :
                    /\ days_before_month(year, m) < n
                    /\ n <= days_before_month(year, m) + days_in_month(year, m)
    IN [ok |-> TRUE, year |-> year, month |-> month, day |-> n - days_before_month(year, month)]

InvalidDate == [ok |-> FALSE, year |-> 0, month |-> 0, day |-> 0]

\* year 0 has no ordinal; what the conversion yields for it never passes the
\* range check of the datetime constructor
iso_to_ymd(iso_year, iso_week, iso_day) ==
    IF iso_year < 1 THEN InvalidDate
    ELSE IF /\ iso_week <= 0 \/ iso_week >= 53
            /\ ~ /\ iso_week = 53
                 /\ \/ first_weekday(iso_year) = 3
                    \/ first_weekday(iso_year) = 2 /\ is_leap(iso_year)
         THEN InvalidDate
    ELSE IF iso_day <= 0 \/ iso_day >= 8 THEN InvalidDate
    ELSE ord_to_ymd(iso_week1_monday(iso_year) + (iso_week - 1) * 7 + iso_day - 1)

\* end of the run of digits that starts after position i
RECURSIVE DigitRunEnd(_, _)
DigitRunEnd(s, i) ==
    IF i < Len(s) /\ is_digit(CharAt(s, i + 1)) THEN DigitRunEnd(s, i + 1) ELSE i

\* number of bytes of the date part, -1 if there can be none
find_isoformat_datetime_separator(s) ==
    LET len == Len(s) IN
    IF len = 7 THEN 7
    ELSE IF CharAt(s, 5) = HYPHEN
         THEN IF CharAt(s, 6) = LETTER_W
              THEN IF len < 8 THEN -1
                   ELSE IF len > 8 /\ CharAt(s, 9) = HYPHEN
                        THEN IF len = 9 THEN -1
                             ELSE IF len > 10 /\ is_digit(CharAt(s, 11)) THEN 8
                             ELSE 10
                   ELSE 8
              ELSE 10
    ELSE IF CharAt(s, 5) = LETTER_W
         THEN LET i == DigitRunEnd(s, 7) IN
              IF i < 9 THEN i
              ELSE IF i % 2 = 0 THEN 7 ELSE 8
    ELSE 8

\* YYYY-MM-DD, YYYYMMDD, YYYY-Www[-D], YYYYWww[D] in the first len bytes
parse_isoformat_date(s, len) ==
    IF ~HasDigits(s, 1, 4) THEN InvalidDate
    ELSE
    LET year == parse_digits(s, 1, 4)
        uses_separator == CharAt(s, 5) = HYPHEN
        p == IF uses_separator THEN 6 ELSE 5
    IN
    IF CharAt(s, p) = LETTER_W
    THEN IF ~HasDigits(s, p + 1, 2) THEN InvalidDate
         ELSE
         LET iso_week == parse_digits(s, p + 1, 2)
             q == p + 3
             r == IF uses_separator THEN q + 1 ELSE q
         IN
         IF q - 1 < len
         THEN IF uses_separator /\ CharAt(s, q) # HYPHEN THEN InvalidDate
              ELSE IF ~HasDigits(s, r, 1) THEN InvalidDate
              ELSE iso_to_ymd(year, iso_week, parse_digits(s, r, 1))
         ELSE iso_to_ymd(year, iso_week, 1)
    ELSE IF ~HasDigits(s, p, 2) THEN InvalidDate
    ELSE
    LET q == p + 2
        r == IF uses_separator THEN q + 1 ELSE q
    IN
    IF uses_separator /\ CharAt(s, q) # HYPHEN THEN InvalidDate
    ELSE IF ~HasDigits(s, r, 2) THEN InvalidDate
    ELSE [ok |-> TRUE, year |-> year, month |-> parse_digits(s, p, 2),
          day |-> parse_digits(s, r, 2)]

\* the fractional part of parse_hh_mm_ss_ff: up to six digits are read, further
\* digits skipped; 1 when the next byte is not NUL, 0 when it is, -3 on failure
ParseFraction(s, p, p_end) ==
    LET len_remains == p_end - p
        to_parse == IF len_remains >= 6 THEN 6 ELSE len_remains
    IN
    IF to_parse < 1 \/ ~HasDigits(s, p, to_parse) THEN -3
    ELSE IF CharAt(s, DigitRunEnd(s, p + to_parse - 1) + 1) # NUL THEN 1 ELSE 0

\* the loop of parse_hh_mm_ss_ff over hour, minute, second from its round i;
\* vals are the fields read so far
RECURSIVE ParseFields(_, _, _, _, _, _)
ParseFields(s, i, p, p_end, has_separator, vals) ==
    IF i = 3 THEN [rv |-> ParseFraction(s, p, p_end), vals |-> vals]
    ELSE IF ~HasDigits(s, p, 2) THEN [rv |-> -3, vals |-> vals]
    ELSE
    LET read == Append(vals, parse_digits(s, p, 2))
        c == CharAt(s, p + 2)
        q == p + 3
        sep == IF i = 0 THEN c = COLON ELSE has_separator
    IN
    IF q >= p_end THEN [rv |-> IF c # NUL THEN 1 ELSE 0, vals |-> read]
    ELSE IF sep /\ c = COLON THEN ParseFields(s, i + 1, q, p_end, sep, read)
    ELSE IF c = FULL_STOP \/ c = COMMA THEN [rv |-> ParseFraction(s, q, p_end), vals |-> read]
    ELSE IF ~sep THEN ParseFields(s, i + 1, q - 1, p_end, sep, read)
    ELSE [rv |-> -4, vals |-> read]

\* [HH[:MM[:SS]]][.fff] in the bytes from p to before p_end; fields not given are 0
parse_hh_mm_ss_ff(s, p, p_end) ==
    LET r == ParseFields(s, 0, p, p_end, TRUE, <<>>)
        val(k) == IF k <= Len(r.vals) THEN r.vals[k] ELSE 0
    IN [rv |-> r.rv, hour |-> val(1), minute |-> val(2), second |-> val(3)]

\* position of the first "Z", "+" or "-" from p on, past the end if there is none
RECURSIVE TzinfoPos(_, _)
TzinfoPos(s, p) ==
    IF p > Len(s) THEN p
    ELSE IF s[p] \in {LETTER_Z, PLUS_SIGN, HYPHEN} THEN p
    ELSE TzinfoPos(s, p + 1)

InvalidTime == [ok |-> FALSE, hour |-> 0, minute |-> 0, second |-> 0]

\* the time part, which starts at position p; an offset must be a whole
\* [HH[:MM[:SS]]][.fff] below 24 hours, "Z" must end the string
parse_isoformat_time(s, p) ==
    LET p_end == Len(s) + 1
        tzinfo_pos == IF p > Len(s) THEN p + 1 ELSE TzinfoPos(s, p)
        t == parse_hh_mm_ss_ff(s, p, tzinfo_pos)
        time == [ok |-> TRUE, hour |-> t.hour, minute |-> t.minute, second |-> t.second]
        tz == parse_hh_mm_ss_ff(s, tzinfo_pos + 1, p_end)
    IN
    IF t.rv < 0 THEN InvalidTime
    ELSE IF tzinfo_pos >= p_end THEN (IF t.rv = 1 THEN InvalidTime ELSE time)
    ELSE IF CharAt(s, tzinfo_pos) = LETTER_Z
         THEN (IF CharAt(s, tzinfo_pos + 1) # NUL THEN InvalidTime ELSE time)
    ELSE IF tz.rv # 0 THEN InvalidTime
    ELSE IF tz.hour * 3600 + tz.minute * 60 + tz.second >= 86400 THEN InvalidTime
    ELSE time

Midnight == [ok |-> TRUE, hour |-> 0, minute |-> 0, second |-> 0]

\* datetime.fromisoformat(cps): the fields of the datetime, ok = FALSE for
\* ValueError.  The time part starts after the separator character, however
\* many bytes that has
fromisoformat(cps) ==
    LET dtstr_clean == sanitize_isoformat_str(cps)
        s == AsUTF8(dtstr_clean)
        len == Len(s)
        separator_location == find_isoformat_datetime_separator(s)
        d == parse_isoformat_date(s, separator_location)
        t == IF len > separator_location
             THEN parse_isoformat_time(s, separator_location
                      + SeparatorWidth(s[separator_location + 1]) + 1)
             ELSE Midnight
        invalid == [ok |-> FALSE]
    IN
    IF Len(cps) < 7 \/ ~HasUTF8(dtstr_clean) THEN invalid
    ELSE IF separator_location < 0 THEN invalid
    ELSE IF ~d.ok \/ ~t.ok THEN invalid
    ELSE IF ~ /\ d.year \in 1..9999
              /\ d.month \in 1..12
              /\ d.day \in 1..days_in_month(d.year, d.month)
         THEN invalid
    ELSE IF ~(t.hour <= 23 /\ t.minute <= 59 /\ t.second <= 59) THEN invalid
    ELSE [ok |-> TRUE, year |-> d.year, month |-> d.month, day |-> d.day,
          hour |-> t.hour, minute |-> t.minute, second |-> t.second]

\* fromisoformat raises no ValueError
IsIsoFormat(t) == fromisoformat(t).ok

\* %m, %d, %H, %M, %S: two digits
TwoDigits(n) == <<DigitChar(n \div 10), DigitChar(n % 10)>>

\* date.strftime('%Y-%m-%d %H:%M:%S'); %Y is the year without padding, and
\* neither the fraction nor the offset is rendered
strftime(date) ==
    Digits(date.year) \o <<"-">> \o TwoDigits(date.month) \o <<"-">> \o TwoDigits(date.day)
    \o <<" ">> \o TwoDigits(date.hour) \o <<":">> \o TwoDigits(date.minute)
    \o <<":">> \o TwoDigits(date.second)

\* defined where IsIsoFormat(StripZ(timestamp)); otherwise ValueError is raised
convert_timestamp(timestamp) == strftime(fromisoformat(StripZ(timestamp)))

----------------------------------------------------------------------------
(* process_geojson_features, one feature *)

EmptyDict == [k \in {} |-> <<>>]

\* properties.get('location', {})
LocationOf(properties) ==
    IF Has(properties, "location") THEN properties.location ELSE EmptyDict

\* GeojsonName with the first two operands of the "or" chain exchanged
GeojsonName_AddressFirst(location, coordinates) ==
    IF Truthy(location, "address") THEN location.address
    ELSE IF Truthy(location, "name") THEN location.name
    ELSE Join(<<",", " ">>, MapStr(coordinates))

\* location.get('name') or location.get('address') or ', '.join(map(str, coordinates))
GeojsonName(location, coordinates) ==
    IF Truthy(location, "name") THEN location.name
    ELSE IF Truthy(location, "address") THEN location.address
    ELSE Join(<<",", " ">>, MapStr(coordinates))

\* ','.join(map(str, coordinates))
GeojsonCoordinates(coordinates) == Join(<<",">>, MapStr(coordinates))

GeojsonDescription(properties, location) ==
    (IF Has(properties, "address")
        THEN <<"<b>Address:</b> ">> \o location.address \o <<"<br>">> ELSE <<>>)
    \o (IF Has(properties, "date")
        THEN <<"<b>Date bookmarked:</b> ">> \o convert_timestamp(properties.date) \o <<"<br>">>
        ELSE <<>>)
    \o (IF Has(properties, "Comment")
        THEN <<"<b>Comment:</b> ">> \o properties.Comment \o <<"<br>">> ELSE <<>>)
    \o (IF Has(properties, "google_maps_url")
        THEN <<"<b>Google Maps URL:</b> <a href=\"">> \o properties.google_maps_url
             \o <<"\">">> \o properties.google_maps_url \o <<"</a><br>">>
        ELSE <<>>)

\* the exception one feature raises, "" if none
FeatureError(feature) ==
    IF ~Has(feature, "geometry") THEN "KeyError"
    ELSE IF ~Has(feature.geometry, "coordinates") THEN "KeyError"
    ELSE IF ~Has(feature, "properties") THEN "KeyError"
    ELSE LET properties == feature.properties
             location == LocationOf(properties) IN
         IF Has(properties, "address") /\ ~Has(location, "address") THEN "KeyError"
         ELSE IF Has(properties, "date") /\ ~IsIsoFormat(StripZ(properties.date))
              THEN "ValueError"
         ELSE ""

\* the dict appended to self.places for a feature that raises nothing
FeaturePlace(feature) ==
    LET coordinates == feature.geometry.coordinates
        properties == feature.properties
        location == LocationOf(properties) IN
    [name |-> GeojsonName(location, coordinates),
     description |-> GeojsonDescription(properties, location),
     coordinates |-> GeojsonCoordinates(coordinates)]

----------------------------------------------------------------------------
(* process_csv_features, coordinate resolution of one row *)

SearchPrefix == <<"https:", "/", "/", "www.google.com", "/", "maps", "/", "search", "/">>
PlacePrefix == <<"https:", "/", "/", "www.google.com", "/", "maps", "/", "place", "/">>

\* SearchCoordinates without coordinates.reverse()
SearchCoordinates_NoReverse(url) ==
    Join(<<",">>, Split(LastOf(Split(url, "/")), ","))

\* url.split('/')[-1].split(','), reversed, ','.join
SearchCoordinates(url) ==
    Join(<<",">>, Reverse(Split(LastOf(Split(url, "/")), ",")))

\* url.split('!1s')[-1]
Ftid(url) == LastOf(Split(url, "!1s"))

\* the details request; urlencode of the three parameters is kept as the parameters
PlacesUrl(key, url) ==
    [endpoint |-> "https://maps.googleapis.com/maps/api/place/details/json",
     key |-> key, fields |-> "geometry", ftid |-> Ftid(url)]

\* data['result']['geometry']['location'] with both 'lng' and 'lat': no KeyError
HasLocation(data) ==
    /\ Has(data, "result")
    /\ Has(data.result, "geometry")
    /\ Has(data.result.geometry, "location")
    /\ Has(data.result.geometry.location, "lng")
    /\ Has(data.result.geometry.location, "lat")

\* ','.join([str(location['lng']), str(location['lat'])])
LocationCoordinates(data) ==
    LET location == data.result.geometry.location IN
    Join(<<",">>, <<Str(location.lng), Str(location.lat)>>)

----------------------------------------------------------------------------
(* get_json, one attempt *)

max_attempts == 3

\* GetJsonStep with the bound of the retry test off by one
GetJsonStep_OneMore(kind, r) ==
    IF kind = "ok" THEN "return"
    ELSE IF kind = "URLError"
         THEN IF r < max_attempts THEN "continue" ELSE "raise"
    ELSE "raise"

\* what the loop body does after urlopen / json.load gave outcome kind
GetJsonStep(kind, r) ==
    IF kind = "ok" THEN "return"
    ELSE IF kind = "URLError"
         THEN IF r < max_attempts - 1 THEN "continue" ELSE "raise"
    ELSE "raise"

\* the except clause prints its notice before it looks at retry
GetJsonNotice(kind, r) == kind = "URLError"

----------------------------------------------------------------------------
(* convert, up to the dispatch on the mime type *)

JsonMimes == {"application/geo+json", "application/json"}

\* ConvertDispatch with the JSONDecodeError swallowed instead of re-raised
ConvertDispatch_SwallowJsonError(c, mime) ==
    IF c.blank THEN [pc |-> "failed", err |-> "ValueError: empty"]
    ELSE IF mime \in JsonMimes
         THEN IF ~c.valid_json
              THEN [pc |-> "write", err |-> ""]
              ELSE [pc |-> "geojson", err |-> ""]
    ELSE IF mime = "text/csv" THEN [pc |-> "get_api_key", err |-> ""]
    ELSE [pc |-> "failed", err |-> "ValueError: unsupported file format"]

\* ConvertDispatch with the call of get_api_key left out
ConvertDispatch_NoKey(c, mime) ==
    IF c.blank THEN [pc |-> "failed", err |-> "ValueError: empty"]
    ELSE IF mime \in JsonMimes
         THEN IF ~c.valid_json
              THEN [pc |-> "failed", err |-> "ValueError: not a valid JSON file"]
              ELSE [pc |-> "geojson", err |-> ""]
    ELSE IF mime = "text/csv" THEN [pc |-> "process_csv_features", err |-> ""]
    ELSE [pc |-> "failed", err |-> "ValueError: unsupported file format"]

ConvertDispatch(c, mime) ==
    IF c.blank THEN [pc |-> "failed", err |-> "ValueError: empty"]
    ELSE IF mime \in JsonMimes
         THEN IF ~c.valid_json
              THEN [pc |-> "failed", err |-> "ValueError: not a valid JSON file"]
              ELSE [pc |-> "geojson", err |-> ""]
    ELSE IF mime = "text/csv" THEN [pc |-> "get_api_key", err |-> ""]
    ELSE [pc |-> "failed", err |-> "ValueError: unsupported file format"]

----------------------------------------------------------------------------
(* write_gpx: place['coordinates'].split(',')[1] and [0] *)

GpxIndexError(place) == Len(Split(place.coordinates, ",")) < 2

GpxWpt(place) ==
    [tag |-> "wpt",
     lat |-> Split(place.coordinates, ",")[2],
     lon |-> Split(place.coordinates, ",")[1],
     name |-> place.name,
     desc |-> place.description]

KmlPlacemark(place) ==
    [tag |-> "Placemark",
     name |-> place.name,
     description |-> place.description,
     coordinates |-> place.coordinates]

----------------------------------------------------------------------------
(* The inputs explored *)

Num(neg, w, t) == [neg |-> neg, w |-> w, t |-> t]

Lon == Num(FALSE, 2, 0)         \* 2.0
Lat == Num(FALSE, 48, 5)        \* 48.5
Alt == Num(TRUE, 73, -1)        \* -73

\* "2023-05-01T10:00:00Z"
ValidDate ==
    <<50, 48, 50, 51, 45, 48, 53, 45, 48, 49, 84, 49, 48, 58, 48, 48, 58, 48,
      48, 90>>

\* "2023-05-01 10:00:00ZZ": one "Z" is left for the parser
SpacedDate ==
    <<50, 48, 50, 51, 45, 48, 53, 45, 48, 49, 32, 49, 48, 58, 48, 48, 58, 48,
      48, 90, 90>>

\* "2023-05-01T10:00:00+02:00"
OffsetDate ==
    <<50, 48, 50, 51, 45, 48, 53, 45, 48, 49, 84, 49, 48, 58, 48, 48, 58, 48,
      48, 43, 48, 50, 58, 48, 48>>

\* "2023-05-01"
DateOnly ==
    <<50, 48, 50, 51, 45, 48, 53, 45, 48, 49>>

\* "yesterday"
BadDate ==
    <<121, 101, 115, 116, 101, 114, 100, 97, 121>>

\* "2023-05-01T10" followed by U+00E9 and "ZZ": the two bytes of U+00E9 stand
\* between the hour and the zone
AccentDate ==
    <<50, 48, 50, 51, 45, 48, 53, 45, 48, 49, 84, 49, 48, 233, 90, 90>>

Features ==
    { [geometry |-> [coordinates |-> <<Lon, Lat>>],
       properties |-> [location |-> [name |-> <<"Louvre">>, address |-> <<"Rue">>],
                       date |-> ValidDate, Comment |-> <<"nice">>]],
      [geometry |-> [coordinates |-> <<Lon, Lat>>],
       properties |-> [location |-> [address |-> <<"Rue">>],
                       google_maps_url |-> <<"http://maps.google.com/?cid=1">>]],
      [geometry |-> [coordinates |-> <<Lon, Lat>>],
       properties |-> [location |-> [name |-> <<>>, address |-> <<"Rue">>]]],
      [geometry |-> [coordinates |-> <<Lon, Lat>>],
       properties |-> [date |-> DateOnly]],
      [geometry |-> [coordinates |-> <<Lon, Lat>>],
       properties |-> [date |-> SpacedDate]],
      [geometry |-> [coordinates |-> <<Lon, Lat>>],
       properties |-> [date |-> OffsetDate]],
      [geometry |-> [coordinates |-> <<Lon, Lat, Alt>>],
       properties |-> [location |-> [name |-> <<>>]]],
      [geometry |-> [coordinates |-> <<Lon>>],
       properties |-> [Comment |-> <<"nice">>]],
      [properties |-> [location |-> [name |-> <<"Louvre">>]]],
      [geometry |-> [coordinates |-> <<Lon, Lat>>],
       properties |-> [date |-> BadDate]],
      [geometry |-> [coordinates |-> <<Lon, Lat>>],
       properties |-> [date |-> AccentDate]],
      [geometry |-> [coordinates |-> <<Lon, Lat>>],
       properties |-> [address |-> <<"Rue">>, location |-> [name |-> <<"Louvre">>]]] }

SearchUrl(segment) == SearchPrefix \o segment
PlaceUrl(ftid) == PlacePrefix \o <<"Cafe", "/", "data=!4m2!3m1", "!1s">> \o ftid

LatText == <<"48.8584">>
LngText == <<"2.2945">>

Rows ==
    { << <<"Eiffel Tower">>, <<"A landmark">>, SearchUrl(LatText \o <<",">> \o LngText) >>,
      << <<"Cafe">>, <<>>, PlaceUrl(<<"0x1:0x2">>) >>,
      << <<"Home">>, <<"note">>, <<"https:", "/", "/", "maps.app.goo.gl", "/", "xyz">> >>,
      << <<"Tower">>, <<>>, SearchUrl(<<"Eiffel+Tower">>) >>,
      << <<"Short">>, <<"no url">> >> }

Header == << <<"Title">>, <<"Note">>, <<"URL">> >>

NoBody == [none |-> TRUE]

Bodies ==
    { [result |-> [geometry |-> [location |-> [lng |-> Lon, lat |-> Lat]]]],
      [result |-> [geometry |-> [location |-> [lng |-> Lon]]]],
      [status |-> <<"REQUEST_DENIED">>] }

Outcomes ==
    { [kind |-> "URLError", data |-> NoBody], [kind |-> "OtherError", data |-> NoBody] }
    \cup { [kind |-> "ok", data |-> b] : b \in Bodies }

SeqsUpTo(S, n) == UNION { [1..k -> S] : k \in 0..n }

NoDoc == [type |-> <<"FeatureCollection">>]

\* file.read().strip() with what json.loads and csv.reader make of it
Blank == [blank |-> TRUE, valid_json |-> FALSE, doc |-> NoDoc, rows |-> <<>>]
NotJson == [blank |-> FALSE, valid_json |-> FALSE, doc |-> NoDoc, rows |-> <<Header>>]
JsonText(doc) == [blank |-> FALSE, valid_json |-> TRUE, doc |-> doc, rows |-> <<Header>>]
CsvText(data) == [blank |-> FALSE, valid_json |-> FALSE, doc |-> NoDoc, rows |-> <<Header>> \o data]

JsonContents ==
    {Blank, NotJson, JsonText(NoDoc)}
    \cup { JsonText([features |-> fs]) : fs \in SeqsUpTo(Features, MaxFeatures) }

CsvContents == {Blank} \cup { CsvText(data) : data \in SeqsUpTo(Rows, MaxRows) }

OtherContents == {Blank, NotJson, JsonText([features |-> <<>>])}

KeyInputs == {<<>>, <<"AIza">>}

NoUrl == [endpoint |-> "", key |-> <<>>, fields |-> "", ftid |-> <<>>]

Line(msg, n, name) == [msg |-> msg, n |-> n, name |-> name]

\* number of lines of the console that carry the message msg
CountMsg(lines, msg) == Cardinality({i \in 1..Len(lines) : lines[i].msg = msg})

----------------------------------------------------------------------------
(* State after GoogleMapsConverter.__init__ returned *)

Init ==
    /\ \E m \in JsonMimes \cup {"text/csv", "text/plain"} :
          /\ input_mime = m
          /\ content \in (IF m \in JsonMimes THEN JsonContents
                          ELSE IF m = "text/csv" THEN CsvContents
                          ELSE OtherContents)
    /\ output_format \in {"kml", "gpx"}
    /\ places = <<>>
    /\ api_key = <<>>
    /\ pc = "convert"
    /\ idx = 0
    /\ retry = 0
    /\ places_url = NoUrl
    /\ console = <<>>
    /\ netlog = <<>>
    /\ output = <<>>
    /\ writes = 0
    /\ writer = "none"
    /\ err = ""

----------------------------------------------------------------------------
(* convert: read the file, check it, dispatch on the mime type *)

convert ==
    /\ pc = "convert"
    /\ LET d == ConvertDispatch(content, input_mime) IN
          /\ pc' = d.pc
          /\ err' = d.err
    /\ UNCHANGED <<input_mime, content, output_format, places, api_key, idx, retry,
                   places_url, console, netlog, output, writes, writer>>

\* one round of the prompt loop
get_api_key ==
    /\ pc = "get_api_key"
    /\ \E k \in KeyInputs :
          /\ k = <<>> => CountMsg(console, "API key: ") + 1 < MaxPrompts
          /\ api_key' = k
          /\ IF k = <<>>
             THEN /\ console' = console \o <<Line("API key: ", 0, <<>>),
                                            Line("Please provide an API key", 0, <<>>)>>
                  /\ pc' = "get_api_key"
             ELSE /\ console' = Append(console, Line("API key: ", 0, <<>>))
                  /\ pc' = "process_csv_features"
    /\ UNCHANGED <<input_mime, content, output_format, places, idx, retry,
                   places_url, netlog, output, writes, writer, err>>

----------------------------------------------------------------------------
(* process_geojson_features *)

geojson_feature ==
    /\ pc = "geojson"
    /\ Has(content.doc, "features")
    /\ idx < Len(content.doc.features)
    /\ LET feature == content.doc.features[idx + 1] IN
          IF FeatureError(feature) # ""
          THEN /\ pc' = "failed"
               /\ err' = FeatureError(feature)
               /\ UNCHANGED <<places, idx>>
          ELSE /\ places' = Append(places, FeaturePlace(feature))
               /\ idx' = idx + 1
               /\ UNCHANGED <<pc, err>>
    /\ UNCHANGED <<input_mime, content, output_format, api_key, retry,
                   places_url, console, netlog, output, writes, writer>>

\* geojson['features'] raises KeyError, or the loop is exhausted
geojson_return ==
    /\ pc = "geojson"
    /\ IF ~Has(content.doc, "features")
       THEN pc' = "failed" /\ err' = "KeyError"
       ELSE /\ idx = Len(content.doc.features)
            /\ pc' = "write"
            /\ err' = err
    /\ UNCHANGED <<input_mime, content, output_format, places, api_key, idx, retry,
                   places_url, console, netlog, output, writes, writer>>

----------------------------------------------------------------------------
(* process_csv_features *)

\* csv.reader(StringIO(content)); next(csvreader) skips the header
process_csv_features ==
    /\ pc = "process_csv_features"
    /\ idx' = 0
    /\ pc' = "csv_row"
    /\ UNCHANGED <<input_mime, content, output_format, places, api_key, retry,
                   places_url, console, netlog, output, writes, writer, err>>

\* the data rows, in file order
DataRows == SubSeq(content.rows, 2, Len(content.rows))

\* row[0], row[1], row[2] are read before the try block is entered
RowError(row) == IF Len(row) < 3 THEN "IndexError" ELSE ""

\* UrlClass with the first test dropped, so that the else branch is never taken
UrlClass_NoElse(url) ==
    IF StartsWith(url, PlacePrefix) THEN "place" ELSE "search"

\* which branch of the if / elif / else the url takes
UrlClass(url) ==
    IF StartsWith(url, SearchPrefix) THEN "search"
    ELSE IF StartsWith(url, PlacePrefix) THEN "place"
    ELSE "other"

csv_row ==
    /\ pc = "csv_row"
    /\ idx < Len(DataRows)
    /\ LET row == DataRows[idx + 1] IN
          IF RowError(row) # ""
          THEN /\ pc' = "failed"
               /\ err' = RowError(row)
               /\ UNCHANGED <<places, idx, retry, places_url, console>>
          ELSE LET name == row[1]
                   description == row[2]
                   url == row[3]
                   progress == Append(console, Line("Progress: Parsing", idx + 1, name))
               IN
               /\ err' = err
               /\ CASE UrlClass(url) = "search" ->
                         /\ places' = Append(places,
                                [name |-> name, description |-> description,
                                 coordinates |-> SearchCoordinates(url)])
                         /\ console' = progress
                         /\ idx' = idx + 1
                         /\ UNCHANGED <<pc, retry, places_url>>
                    [] UrlClass(url) = "place" ->
                         /\ places_url' = PlacesUrl(api_key, url)
                         /\ retry' = 0
                         /\ pc' = "get_json"
                         /\ console' = progress
                         /\ UNCHANGED <<places, idx>>
                    [] OTHER ->
                         /\ console' = Append(progress,
                                Line("Couldn't parse url. Skipping", 0, name))
                         /\ idx' = idx + 1
                         /\ UNCHANGED <<places, pc, retry, places_url>>
    /\ UNCHANGED <<input_mime, content, output_format, api_key, netlog,
                   output, writes, writer>>

\* what the rest of the try block does with the way get_json ended:
\* the inner handler takes URLError and KeyError, the outer one everything else
LookupResult(step, kind, data) ==
    IF step = "return"
    THEN IF HasLocation(data) THEN "append" ELSE "skip"
    ELSE IF kind = "URLError" THEN "skip"
    ELSE "traceback"

\* one pass of the loop of get_json, and, when get_json ends, the rest of the row
get_json ==
    /\ pc = "get_json"
    /\ \E o \in Outcomes :
          LET row == DataRows[idx + 1]
              name == row[1]
              step == GetJsonStep(o.kind, retry)
              notice == IF GetJsonNotice(o.kind, retry)
                        THEN <<Line("Couldn't connect to Google Maps. Retrying...",
                                    retry + 1, <<>>)>>
                        ELSE <<>>
          IN
          /\ netlog' = Append(netlog,
                 [row |-> idx + 1, url |-> places_url, attempt |-> retry + 1,
                  kind |-> o.kind, data |-> o.data, step |-> step])
          /\ IF step = "continue"
             THEN /\ retry' = retry + 1
                  /\ console' = console \o notice
                  /\ UNCHANGED <<places, idx, pc>>
             ELSE /\ retry' = retry
                  /\ idx' = idx + 1
                  /\ pc' = "csv_row"
                  /\ CASE LookupResult(step, o.kind, o.data) = "append" ->
                            /\ places' = Append(places,
                                   [name |-> name, description |-> row[2],
                                    coordinates |-> LocationCoordinates(o.data)])
                            /\ console' = console \o notice
                       [] LookupResult(step, o.kind, o.data) = "skip" ->
                            /\ places' = places
                            /\ console' = console \o notice \o
                                   <<Line("Couldn't extract coordinates from Google Maps. Skipping",
                                          0, name)>>
                       [] OTHER ->
                            /\ places' = places
                            /\ console' = console \o notice \o
                                   <<Line("Couldn't parse: traceback", 0, name)>>
    /\ UNCHANGED <<input_mime, content, output_format, api_key, places_url,
                   output, writes, writer, err>>

\* the for loop is exhausted and process_csv_features returns to convert
csv_return ==
    /\ pc = "csv_row"
    /\ idx = Len(DataRows)
    /\ pc' = "write"
    /\ UNCHANGED <<input_mime, content, output_format, places, api_key, idx, retry,
                   places_url, console, netlog, output, writes, writer, err>>

----------------------------------------------------------------------------
(* The writers, called by convert once parsing has returned *)

write_kml ==
    /\ pc = "write"
    /\ output_format = "kml"
    /\ writer' = "kml"
    /\ output' = [i \in 1..Len(places) |-> KmlPlacemark(places[i])]
    /\ writes' = writes + 1
    /\ console' = console \o <<Line("", 0, <<>>),
                               Line("Exported Google Saved Places to", 0, <<>>)>>
    /\ pc' = "done"
    /\ UNCHANGED <<input_mime, content, output_format, places, api_key, idx, retry,
                   places_url, netlog, err>>

\* the wpt elements are built before tree.write; an IndexError leaves no file
write_gpx ==
    /\ pc = "write"
    /\ output_format = "gpx"
    /\ writer' = "gpx"
    /\ IF \E i \in 1..Len(places) : GpxIndexError(places[i])
       THEN /\ pc' = "failed"
            /\ err' = "IndexError"
            /\ UNCHANGED <<output, writes, console>>
       ELSE /\ output' = [i \in 1..Len(places) |-> GpxWpt(places[i])]
            /\ writes' = writes + 1
            /\ console' = Append(console, Line("Exported Google Saved Places to", 0, <<>>))
            /\ pc' = "done"
            /\ err' = err
    /\ UNCHANGED <<input_mime, content, output_format, places, api_key, idx, retry,
                   places_url, netlog>>

----------------------------------------------------------------------------

Next ==
    \/ convert
    \/ get_api_key
    \/ geojson_feature
    \/ geojson_return
    \/ process_csv_features
    \/ csv_row
    \/ get_json
    \/ csv_return
    \/ write_kml
    \/ write_gpx

Spec == Init /\ [][Next]_vars

----------------------------------------------------------------------------
(* Vocabulary of the properties *)

OnCsvPath == input_mime = "text/csv" /\ ~content.blank
OnJsonPath == input_mime \in JsonMimes /\ ~content.blank /\ content.valid_json

\* the urlopen calls made for data row r, in order
CallEntries(r) == SelectSeq(netlog, LAMBDA e : e.row = r)

\* get_json is no longer running for data row r
CallEnded(r) == idx >= r

\* the retry notices printed while data row r was being processed: the lines
\* after the progress line of row r and before the progress line of row r + 1
ProgressAt(r) ==
    CHOOSE i \in 1..Len(console) : console[i].msg = "Progress: Parsing" /\ console[i].n = r

HasProgress(r) ==
    \E i \in 1..Len(console) : console[i].msg = "Progress: Parsing" /\ console[i].n = r

NoticesForRow(r) ==
    Cardinality({ i \in 1..Len(console) :
        /\ console[i].msg = "Couldn't connect to Google Maps. Retrying..."
        /\ i > ProgressAt(r)
        /\ HasProgress(r + 1) => i < ProgressAt(r + 1) })

ApiKeyPrompts == CountMsg(console, "API key: ")

\* the rows of the explored inputs, told apart by how they were built
SearchTexts == {LatText, LngText}
IsLatLngSearchRow(row, lat, lng) ==
    Len(row) = 3 /\ row[3] = SearchUrl(lat \o <<",">> \o lng)
Begins(url, prefix) == \A k \in 1..Len(prefix) : k <= Len(url) /\ url[k] = prefix[k]
IsSearchRow(row) == Len(row) = 3 /\ Begins(row[3], SearchPrefix)
IsPlaceRow(row) == Len(row) = 3 /\ Begins(row[3], PlacePrefix)

\* data row r (already consumed) had its coordinates resolved
RowResolved(r) ==
    LET row == DataRows[r] es == CallEntries(r) IN
    \/ IsSearchRow(row)
    \/ /\ IsPlaceRow(row)
       /\ Len(es) > 0
       /\ es[Len(es)].kind = "ok"
       /\ \E lng, lat \in {Lon, Lat, Alt} :
             es[Len(es)].data = [result |-> [geometry |-> [location |-> [lng |-> lng, lat |-> lat]]]]

\* name and description of the resolved rows among the first n data rows, in row order
RECURSIVE ResolvedLabels(_)
ResolvedLabels(n) ==
    IF n = 0 THEN <<>>
    ELSE ResolvedLabels(n - 1) \o
         (IF RowResolved(n) THEN << <<DataRows[n][1], DataRows[n][2]>> >> ELSE <<>>)

PlaceLabels == [i \in 1..Len(places) |-> <<places[i].name, places[i].description>>]

\* s with a space put after every comma
RECURSIVE SpaceAfterCommas(_)
SpaceAfterCommas(s) ==
    IF s = <<>> THEN <<>>
    ELSE (IF Head(s) = "," THEN <<",", " ">> ELSE <<Head(s)>>) \o SpaceAfterCommas(Tail(s))

----------------------------------------------------------------------------
(* C1: no failure of a single CSV data row is fatal: once the rows of a    *)
(* non-blank CSV file are being processed, convert does not fail before    *)
(* process_csv_features has returned and the writer has been called.       *)
C1_NoRowFailureIsFatal ==
    (OnCsvPath /\ pc = "failed") => writer # "none"

(* C2: every Place of self.places has a coordinates string of exactly two  *)
(* comma-separated components.                                             *)
C2_TwoComponents ==
    \A i \in 1..Len(places) : Len(Split(places[i].coordinates, ",")) = 2

(* C3: the output is written at most once and only after parsing has       *)
(* finished; on blank content, an unsupported type, invalid JSON, or a     *)
(* feature with an invalid timestamp or malformed geometry, no writer is   *)
(* ever called and nothing is written.                                     *)
ParseFails ==
    \/ content.blank
    \/ input_mime \notin JsonMimes \cup {"text/csv"}
    \/ /\ input_mime \in JsonMimes
       /\ \/ ~content.valid_json
          \/ ~Has(content.doc, "features")
          \/ \E i \in 1..Len(content.doc.features) :
                LET f == content.doc.features[i] IN
                \/ ~Has(f, "geometry")
                \/ ~Has(f.geometry, "coordinates")
                \/ ~Has(f, "properties")
                \/ /\ Has(f.properties, "date")
                   /\ ~IsIsoFormat(StripZ(f.properties.date))
                \/ Has(f.properties, "address") /\ ~Has(LocationOf(f.properties), "address")

C3_WriteOnceAfterParsing ==
    /\ writes <= 1
    /\ writes = 0 => output = <<>>
    /\ ParseFails => (writer = "none" /\ writes = 0)
    /\ writer # "none" =>
          \/ OnJsonPath /\ idx = Len(content.doc.features) /\ Len(places) = idx
          \/ OnCsvPath /\ idx = Len(DataRows)

\* a feature has been converted and the next one, whose timestamp the parser
\* rejects on the bytes of a non-ASCII character, has ended the conversion
C3_Witness ==
    /\ OnJsonPath
    /\ pc = "failed"
    /\ err = "ValueError"
    /\ Len(places) >= 1
    /\ idx < Len(content.doc.features)
    /\ content.doc.features[idx + 1].properties.date = AccentDate
    /\ writer = "none"

(* C4: get_json makes at most 3 attempts per call; every attempt but the   *)
(* last of a call failed with URLError; a successful attempt ends the call *)
(* by returning; a call whose 3 attempts all failed ends by raising.       *)
C4_AtMostThreeAttempts ==
    \A r \in 1..Len(DataRows) :
        LET es == CallEntries(r) IN
        /\ Len(es) <= 3
        /\ \A i \in 1..Len(es) :
              /\ es[i].attempt = i
              /\ i < Len(es) => es[i].kind = "URLError"
              /\ es[i].kind = "ok" => (es[i].step = "return" /\ CallEnded(r))
              /\ (es[i].kind = "URLError" /\ i < 3) => es[i].step = "continue"
              /\ (es[i].kind = "URLError" /\ i = 3) => (es[i].step = "raise" /\ CallEnded(r))
              /\ es[i].kind = "OtherError" => (es[i].step = "raise" /\ CallEnded(r))
        /\ (Len(es) > 0 /\ ~CallEnded(r)) =>
              (pc = "get_json" /\ retry = Len(es) /\ es[Len(es)].step = "continue")

C4_Witness ==
    \E r \in 1..Len(DataRows) :
        /\ Len(CallEntries(r)) = 3
        /\ CallEntries(r)[3].kind = "URLError"
        /\ CallEntries(r)[3].step = "raise"
        /\ CallEnded(r)

(* C5: on the CSV path the places are exactly the consumed rows whose      *)
(* coordinates were resolved, one per row, in row order; places only ever  *)
(* grows at its end; and consuming a row, skipped or not, leaves the loop  *)
(* running for the rows after it.                                          *)
C5_State ==
    (OnCsvPath /\ pc \notin {"convert", "get_api_key", "process_csv_features"})
        => PlaceLabels = ResolvedLabels(idx)

C5_Step ==
    /\ \/ places' = places
       \/ Len(places') = Len(places) + 1 /\ SubSeq(places', 1, Len(places)) = places
    /\ (OnCsvPath /\ idx' = idx + 1) => pc' = "csv_row"

C5_ResolvedRowsInOrder == [](C5_State) /\ [][C5_Step]_vars

C5_Witness ==
    /\ OnCsvPath
    /\ pc = "write"
    /\ Len(DataRows) = 2
    /\ Len(places) = 1
    /\ IsPlaceRow(DataRows[1])
    /\ Len(CallEntries(1)) = 3
    /\ ~RowResolved(1)
    /\ RowResolved(2)

----------------------------------------------------------------------------
(* C6: the API key is prompted for only on the CSV path; there the prompt  *)
(* loop has ended with a non-empty key before the first row is processed,  *)
(* and every Places API request carries a non-empty key.                   *)
C6_KeyOnlyForCsv ==
    /\ ~OnCsvPath => (ApiKeyPrompts = 0 /\ api_key = <<>>)
    /\ pc \in {"process_csv_features", "csv_row", "get_json"} =>
          (OnCsvPath /\ ApiKeyPrompts >= 1 /\ api_key # <<>>)
    /\ \A i, j \in 1..Len(console) :
          (console[i].msg = "API key: " /\ console[j].msg = "Progress: Parsing") => i < j
    /\ HasProgress(1) => api_key # <<>>
    /\ \A i \in 1..Len(netlog) : netlog[i].url.key # <<>> /\ netlog[i].url.key = api_key

C6_Witness ==
    /\ Len(netlog) >= 1
    /\ netlog[1].url.key = <<"AIza">>
    /\ CountMsg(console, "Please provide an API key") >= 1

(* C7 as stated: a feature with location.name present is named by it, and  *)
(* a feature with neither location.name nor location.address is named by   *)
(* the very string that is stored as its coordinates.                      *)
C7_NameIsStoredCoordinates ==
    OnJsonPath =>
        \A i \in 1..Len(places) :
            LET location == LocationOf(content.doc.features[i].properties) IN
            /\ Has(location, "name") => places[i].name = location.name
            /\ (~Has(location, "name") /\ ~Has(location, "address"))
                  => places[i].name = places[i].coordinates

(* C7 as amended: the name is location.name when present and non-empty,    *)
(* else location.address when present and non-empty, else the coordinate   *)
(* values joined with comma and space: the stored coordinates string with  *)
(* a space after each comma.                                               *)
C7_NamePrecedence ==
    OnJsonPath =>
        \A i \in 1..Len(places) :
            LET location == LocationOf(content.doc.features[i].properties)
                named == Has(location, "name") /\ location.name # <<>>
                addressed == Has(location, "address") /\ location.address # <<>>
            IN
            /\ named => places[i].name = location.name
            /\ (~named /\ addressed) => places[i].name = location.address
            /\ (~named /\ ~addressed)
                  => places[i].name = SpaceAfterCommas(places[i].coordinates)

C7_Witness ==
    /\ OnJsonPath
    /\ \E i \in 1..Len(places) :
          /\ ~Has(content.doc.features[i].properties, "location")
          /\ places[i].coordinates = <<"2", ".", "0", ",", "4", "8", ".", "5">>
          /\ places[i].name = <<"2", ".", "0", ",", " ", "4", "8", ".", "5">>
    /\ \E i \in 1..Len(places) :
          /\ Has(LocationOf(content.doc.features[i].properties), "address")
          /\ places[i].name = <<"Louvre">>

(* C8: a row whose URL is the map-search prefix followed by "LAT,LNG"      *)
(* appends a Place with coordinates "LNG,LAT" and the row's own name and   *)
(* description, and issues no Places API request.                          *)
C8_Step ==
    \A lat, lng \in SearchTexts :
        (/\ OnCsvPath
         /\ pc = "csv_row"
         /\ idx < Len(DataRows)
         /\ IsLatLngSearchRow(DataRows[idx + 1], lat, lng))
        => /\ places' = Append(places,
                  [name |-> DataRows[idx + 1][1],
                   description |-> DataRows[idx + 1][2],
                   coordinates |-> lng \o <<",">> \o lat])
           /\ netlog' = netlog
           /\ idx' = idx + 1

C8_SearchUrlReversed == [][C8_Step]_vars

C8_Witness ==
    /\ OnCsvPath
    /\ idx >= 1
    /\ IsLatLngSearchRow(DataRows[idx], LatText, LngText)
    /\ Len(places) >= 1
    /\ places[Len(places)] = [name |-> <<"Eiffel Tower">>, description |-> <<"A landmark">>,
                              coordinates |-> <<"2.2945", ",", "48.8584">>]
    /\ netlog = <<>>

(* C9: for every places list the writer called emits one element per       *)
(* Place, in order: a Placemark carrying the stored string, or a wpt whose *)
(* lon and lat are components 0 and 1 of it; places is left as it was.     *)
C9_OneElementPerPlace ==
    writer # "none" =>
        /\ Len(output) = Len(places)
        /\ \A i \in 1..Len(output) :
              IF writer = "kml"
              THEN /\ output[i].tag = "Placemark"
                   /\ output[i].coordinates = places[i].coordinates
              ELSE /\ output[i].tag = "wpt"
                   /\ output[i].lon = Split(places[i].coordinates, ",")[1]
                   /\ output[i].lat = Split(places[i].coordinates, ",")[2]

(* C10: the retry notice is printed between attempts only: a call of       *)
(* get_json whose 3 attempts all fail prints it 2 times, a call that       *)
(* succeeds on attempt k prints it k - 1 times.                            *)
C10_NoticeBetweenAttempts ==
    \A r \in 1..Len(DataRows) :
        LET es == CallEntries(r) IN
        (Len(es) > 0 /\ CallEnded(r)) =>
            /\ es[Len(es)].kind = "ok" => NoticesForRow(r) = Len(es) - 1
            /\ (Len(es) = 3 /\ es[3].kind = "URLError") => NoticesForRow(r) = 2

====
